---- MODULE Spec2Model ----
(***************************************************************************)
(* Model of the Account orchestration (abcd/account/Account.cpp) and of    *)
(* the general configuration cache and fee-estimate aggregator             *)
(* (abcd/General.cpp) of airbitz-core.                                     *)
(***************************************************************************)
EXTENDS Integers, Sequences, FiniteSets, TLC

(* ------------------------------ bounds --------------------------------- *)
MaxWallets == 2
MaxCreates == 2
MaxSubmits == 6      \* fee samples submitted in one process lifetime
MaxFeeInput == 4     \* largest fee submitted, in units of 1/FeeUnit satoshi
FeeUnit == 2         \* fee inputs are multiples of 1/FeeUnit satoshi
MaxTableFee == 1     \* largest fee of a server-supplied fee table
MaxEstimate == 2     \* largest fee of a previously persisted estimate
MaxServers == 2      \* longest server list of a fetched document
MaxTicks == 3        \* clock advances observed
NumThreads == 2      \* threads calling generalEstimateFeesUpdate
MaxCalls == 5        \* calls of generalEstimateFeesUpdate started by threads

WalletIds == 1..MaxWallets

(* Content of a repository: the wallet list plus other, non-wallet data.   *)
RepoContents == [wallets : SUBSET WalletIds, meta : 0..1]

EmptyRepo == [wallets |-> {}, meta |-> 0]

(* A local working copy: absent, or a checked-out repository content.      *)
NoDir == [present |-> FALSE, wallets |-> {}, meta |-> 0]

DirOf(rem) == [present |-> TRUE, wallets |-> rem.wallets, meta |-> rem.meta]

(* The caller's std::shared_ptr<Account>: null, or an Account object.      *)
NoAccount == [valid |-> FALSE, id |-> 0, syncKey |-> "", wallets |-> {}]

NoCall ==
    [op |-> "none", err |-> "none", dirty |-> FALSE, pullOk |-> FALSE,
     steps |-> <<>>, preWallets |-> {}, preWorkdir |-> NoDir,
     preResult |-> NoAccount]

(* Login: the session master key (dataKey_), immutable after init. *)
MasterKeys == {"k1", "k2"}
Logins == [dataKey : MasterKeys]

(* The purposes a repository is looked up for; gContext->accountType(). *)
AccountType == "account"
Purposes == {AccountType, "wallet"}

(* The repository identifier derived from the master key and the purpose. *)
RepoId(key, purpose) ==
    CASE key = "k1" /\ purpose = "account" -> "k1/account"
      [] key = "k1" /\ purpose = "wallet"  -> "k1/wallet"
      [] key = "k2" /\ purpose = "account" -> "k2/account"
      [] key = "k2" /\ purpose = "wallet"  -> "k2/wallet"

(* Fee-estimate aggregator data. *)
FeeSlots == 6                       \* estimatedFees[6]
Slots == 0..(FeeSlots - 1)
Buckets == 1..5                     \* the slots zeroed, tested and saved

(* EstimateFeesJson written to feeCachePath: confirmFees1..5 are set.      *)
NoFeeFile == [present |-> FALSE, fees |-> [b \in Buckets |-> 0]]

(* The threads calling into the aggregator, and a call's locals. *)
Threads == 1..NumThreads
NoThread == 0
NoFrame == [blocks |-> 0, sample |-> 0, tempFee |-> 0]

(* The locals of a generalUpdate call: serverScoresJson and arrayJson. *)
NoUpdateFrame == [scores |-> <<>>, servers |-> <<>>]

NoSubmit ==
    [op |-> "none", blocks |-> 0, sample |-> 0, complete |-> FALSE,
     saveOk |-> FALSE, wrote |-> FALSE, err |-> "none"]

(* General configuration cache data. *)
GENERAL_ACCEPTABLE_INFO_FILE_AGE_SECS == 2

Targets == 1..6                     \* confirmFees1..6

Absent == -1                        \* a field the JSON document lacks

(* Defaults of BitcoinFeesJson.confirmFees1..6 *)
DefaultConfirmFees == <<73210, 62110, 51098, 46001, 31002, 26002>>

(* minersFees2 of a document: six integers, or no such object. *)
NoFeeTable == [i \in Targets |-> Absent]

FeeTables == [Targets -> 0..MaxTableFee] \cup {NoFeeTable}

ESTIMATED_FEES_ACCEPTABLE_INFO_FILE_AGE_SECS == 3 * 60 * 60

Urls == {"a", "A", "b"}

(* An array entry that is not a JSON string (a number, say).               *)
NotAString == "<42>"

Entries == Urls \cup {NotAString}

(* json_is_string(e) ? json_string_value(e) : std::string() *)
UrlOf(e) == IF e = NotAString THEN "" ELSE e

(* boost::iequals *)
Lower(u) == IF u = "A" THEN "a" ELSE u

(* The comparison done case-sensitively. *)
IEqualsExact(u, v) == u = v

IEquals(u, v) == Lower(u) = Lower(v)

ServerLists == UNION {[1..n -> Entries] : n \in 0..MaxServers}

(* The syncServers arrays of the documents considered. *)
SyncLists == {<<>>, <<"s">>, <<NotAString>>}

(* The documents loginServerGetGeneral may return. *)
ServerDocs ==
    [fees : FeeTables, servers : ServerLists, syncServers : SyncLists]

(* The documents drawn when the fee table is examined: every fee table,    *)
(* server arrays of strings, no sync servers.                              *)
FeeInfoDocs ==
    {d \in ServerDocs :
        /\ d.syncServers = <<>>
        /\ \A i \in 1..Len(d.servers) : d.servers[i] \in Urls}

(* The documents drawn when the cache refresh is examined: every server    *)
(* array, no fee table, no sync servers.                                   *)
RefreshDocs ==
    {d \in ServerDocs : d.fees = NoFeeTable /\ d.syncServers = <<>>}

(* The documents drawn by a read that finds no cache file: those of       *)
(* RefreshDocs with at most one server.                                    *)
ReadDocs == {d \in RefreshDocs : Len(d.servers) <= 1}

(* The documents drawn when the accessors are examined: at most one        *)
(* bitcoin server, every sync-server array, the fee table absent or        *)
(* uniform.                                                                *)
AccessorDocs ==
    {d \in ServerDocs :
        /\ Len(d.servers) <= 1
        /\ d.fees \in {NoFeeTable, [i \in Targets |-> MaxTableFee]}}


NoDoc == [fees |-> NoFeeTable, servers |-> <<>>, syncServers |-> <<>>]

(* The document drawn when only the age of the files is examined.          *)
StaleDocs == {NoDoc}

NoFetch == [ok |-> FALSE, doc |-> NoDoc]

(* The outcomes of loginServerGetGeneral: a failure, or a document. *)
FetchOutcomes(docs) == {NoFetch} \cup {[ok |-> TRUE, doc |-> d] : d \in docs}

NoGeneralFile ==
    [present |-> FALSE, mtime |-> 0, fees |-> NoFeeTable, servers |-> <<>>,
     syncServers |-> <<>>]

NoScoresFile == [present |-> FALSE, scores |-> <<>>]

NoFeeInfo == [i \in Targets |-> 0]

NoInfoCall ==
    [op |-> "none", err |-> "none", fetched |-> FALSE,
     chosen |-> NoFeeInfo]

(* Record of a call into the general configuration cache: what it found   *)
(* (the cache file before it, the outcome of the fetch and of the writes)  *)
(* and what it did and returned.                                           *)
NoGeneralCall ==
    [op |-> "none", err |-> "none", fetched |-> FALSE, fetchOk |-> FALSE,
     saveOk |-> FALSE, scoresSaveOk |-> FALSE,
     prePresent |-> FALSE, preMtime |-> 0, at |-> 0,
     out |-> <<>>, need |-> FALSE]

VARIABLES
    remote,      \* content of the remote account repository
    workdir,     \* the local working copy (login.paths.syncDir())
    result,      \* the caller's Account handle and its in-memory wallets
    nCreated,    \* number of Account objects constructed so far
    last,        \* record of the last completed create()/sync() call
    login,       \* the Login the accounts are created on
    repos,       \* repository identifiers provisioned on the server
    found,       \* the descriptors repoFind returned, and who obtained them
    estimatedFeesInitialized,    \* static bool estimatedFeesInitialized
    estimatedFees,               \* static double estimatedFees[6]
    estimatedFeesNumResponses,   \* static size_t estimatedFeesNumResponses[6]
    feeFile,     \* the fee-estimate cache file (feeCachePath)
    sampleSum,   \* per bucket, the sum of the samples submitted (base units)
    lastFee,     \* record of the last generalEstimateFeesUpdate call
    mutex_,      \* static std::mutex mutex_: the thread holding it, or none
    pc,          \* per thread, its position in generalEstimateFeesUpdate
    frame,       \* per thread, the arguments and locals of its call
    returned,    \* per bucket, the number of calls that have returned
    served,      \* the document the server returns to concurrent refreshers
    upc,         \* per thread, its position in generalUpdate
    uframe,      \* per thread, the locals of its generalUpdate call
    scoresAtStart, \* the score file as it was before the refreshers started
    generalFile, \* the general configuration cache file (generalPath)
    scoresFile,  \* the server-score file (serverScoresPath)
    now,         \* time(nullptr)
    feeInfo,     \* confirmFees of the last BitcoinFeeInfo returned
    lastInfo,    \* record of the last generalBitcoinFeeInfo call
    feeFileTime, \* last-modified time of the fee-estimate cache file
    testnet,     \* isTestnet()
    ticks,       \* number of clock advances so far
    lastGen      \* record of the last call into the general cache

accVars == <<remote, workdir, result, nCreated, last, login, repos, found>>

callVars == <<mutex_, pc, frame, returned>>

raceVars == <<served, upc, uframe, scoresAtStart>>

threadVars == <<callVars, raceVars>>

feeVars == <<estimatedFeesInitialized, estimatedFees,
             estimatedFeesNumResponses, feeFile, sampleSum, lastFee,
             threadVars>>

genVars == <<generalFile, scoresFile, now, feeInfo, lastInfo, feeFileTime,
             testnet, ticks, lastGen>>

vars == <<accVars, feeVars, genVars>>

(* ------------------- external collaborators (Sync, Wallets, Login) ------ *)

(* Login::repoFind(result, type, create) on login lg, rp being the         *)
(* repositories the server holds: the identifier is derived from the       *)
(* master key and the purpose; an absent repository is provisioned when    *)
(* create is set and reported missing otherwise; ok is the server call.    *)
LoginRepoFind(lg, rp, purpose, create, ok) ==
    LET id == RepoId(lg.dataKey, purpose) IN
    IF ~ok \/ (id \notin rp /\ ~create)
    THEN [ok |-> FALSE, dataKey |-> "", syncKey |-> "", repos |-> rp]
    ELSE [ok |-> TRUE, dataKey |-> lg.dataKey, syncKey |-> id,
          repos |-> rp \cup {id}]

(* login.repoFind(repoInfo, gContext->accountType(), true) *)
RepoFind(ok) == LoginRepoFind(login, repos, AccountType, TRUE, ok)

(* syncRepo(dir, syncKey, dirty): pull; dirty iff the working copy changed. *)
SyncRepo(dir, rem, ok) ==
    IF ok
    THEN [ok |-> TRUE, dir |-> DirOf(rem), dirty |-> (dir # DirOf(rem))]
    ELSE [ok |-> FALSE, dir |-> dir, dirty |-> FALSE]

(* syncEnsureRepo(dir, tempPath, syncKey): materialize the working copy    *)
(* if absent (through a staging directory); no change if present.          *)
SyncEnsureRepo(dir, rem, ok) ==
    IF ok
    THEN [ok |-> TRUE, dir |-> IF dir.present THEN dir ELSE DirOf(rem)]
    ELSE [ok |-> FALSE, dir |-> dir]

(* What Wallets holds after loading from a working copy.                   *)
WalletsOf(dir) == dir.wallets

(* wallets.load(): on failure the previous content is kept.                *)
WalletsLoad(w, dir, ok) ==
    IF ok THEN [ok |-> TRUE, wallets |-> WalletsOf(dir)]
          ELSE [ok |-> FALSE, wallets |-> w]

(* ------------------------------ Account -------------------------------- *)

(* Account::load() reloading the wallets whatever syncEnsureRepo returns. *)
AccountLoadUnensured(w, dir, rem, ensureOk, loadOk) ==
    LET ens == SyncEnsureRepo(dir, rem, ensureOk)
        ld == WalletsLoad(w, ens.dir, loadOk) IN
    [err |-> IF ~ens.ok THEN "syncEnsureRepo"
             ELSE IF ld.ok THEN "none" ELSE "wallets.load",
     dir |-> ens.dir, wallets |-> ld.wallets,
     steps |-> <<"syncEnsureRepo", "wallets.load">>]

(* Account::load() *)
AccountLoad(w, dir, rem, ensureOk, loadOk) ==
    LET ens == SyncEnsureRepo(dir, rem, ensureOk) IN
    IF ~ens.ok
    THEN [err |-> "syncEnsureRepo", dir |-> ens.dir, wallets |-> w,
          steps |-> <<"syncEnsureRepo">>]
    ELSE LET ld == WalletsLoad(w, ens.dir, loadOk) IN
         [err |-> IF ld.ok THEN "none" ELSE "wallets.load",
          dir |-> ens.dir, wallets |-> ld.wallets,
          steps |-> <<"syncEnsureRepo", "wallets.load">>]

(* Account::sync(dirty) with the reload dropped. *)
AccountSyncNoReload(w, dir, rem, pullOk, ensureOk, loadOk) ==
    LET pull == SyncRepo(dir, rem, pullOk) IN
    IF ~pull.ok
    THEN [err |-> "syncRepo", dirty |-> FALSE, dir |-> pull.dir,
          wallets |-> w, steps |-> <<"syncRepo">>]
    ELSE [err |-> "none", dirty |-> pull.dirty, dir |-> pull.dir,
          wallets |-> w, steps |-> <<"syncRepo">>]

(* Account::sync(dirty) with the status of syncRepo not checked. *)
AccountSyncUnchecked(w, dir, rem, pullOk, ensureOk, loadOk) ==
    LET pull == SyncRepo(dir, rem, pullOk) IN
    LET ld == AccountLoad(w, pull.dir, rem, ensureOk, loadOk) IN
    [err |-> ld.err, dirty |-> pull.dirty, dir |-> ld.dir,
     wallets |-> ld.wallets, steps |-> <<"syncRepo">> \o ld.steps]

(* Account::sync(dirty) *)
AccountSync(w, dir, rem, pullOk, ensureOk, loadOk) ==
    LET pull == SyncRepo(dir, rem, pullOk) IN
    IF ~pull.ok
    THEN [err |-> "syncRepo", dirty |-> FALSE, dir |-> pull.dir,
          wallets |-> w, steps |-> <<"syncRepo">>]
    ELSE IF pull.dirty
         THEN LET ld == AccountLoad(w, pull.dir, rem, ensureOk, loadOk) IN
              [err |-> ld.err, dirty |-> TRUE, dir |-> ld.dir,
               wallets |-> ld.wallets, steps |-> <<"syncRepo">> \o ld.steps]
         ELSE [err |-> "none", dirty |-> FALSE, dir |-> pull.dir,
               wallets |-> w, steps |-> <<"syncRepo">>]

(* Account::create with result assigned before load() is checked. *)
AccountCreateAssignEarly(old, id, dir, rem, findOk, ensureOk, loadOk) ==
    LET info == RepoFind(findOk) IN
    IF ~info.ok
    THEN [err |-> "repoFind", result |-> old, dir |-> dir, made |-> FALSE,
          steps |-> <<"repoFind">>]
    ELSE LET ld == AccountLoad({}, dir, rem, ensureOk, loadOk) IN
         [err |-> ld.err,
          result |-> [valid |-> TRUE, id |-> id, syncKey |-> info.syncKey,
                      wallets |-> ld.wallets],
          dir |-> ld.dir, made |-> TRUE,
          steps |-> <<"repoFind", "Account">> \o ld.steps]

(* Account::create constructing the Account on a key of its own. *)
AccountCreateOwnKey(old, id, dir, rem, findOk, ensureOk, loadOk) ==
    LET info == RepoFind(findOk) IN
    IF ~info.ok
    THEN [err |-> "repoFind", result |-> old, dir |-> dir, made |-> FALSE,
          steps |-> <<"repoFind">>]
    ELSE LET ld == AccountLoad({}, dir, rem, ensureOk, loadOk) IN
         [err |-> ld.err,
          result |-> IF ld.err = "none"
                     THEN [valid |-> TRUE, id |-> id,
                           syncKey |-> IF id > 1
                                       THEN RepoId(info.dataKey, "wallet")
                                       ELSE info.syncKey,
                           wallets |-> ld.wallets]
                     ELSE old,
          dir |-> ld.dir, made |-> TRUE,
          steps |-> <<"repoFind", "Account">> \o ld.steps]

(* Account::create(result, login) *)
AccountCreate(old, id, dir, rem, findOk, ensureOk, loadOk) ==
    LET info == RepoFind(findOk) IN
    IF ~info.ok
    THEN [err |-> "repoFind", result |-> old, dir |-> dir, made |-> FALSE,
          steps |-> <<"repoFind">>]
    ELSE LET ld == AccountLoad({}, dir, rem, ensureOk, loadOk) IN
         [err |-> ld.err,
          result |-> IF ld.err = "none"
                     THEN [valid |-> TRUE, id |-> id, syncKey |-> info.syncKey,
                           wallets |-> ld.wallets]
                     ELSE old,
          dir |-> ld.dir, made |-> TRUE,
          steps |-> <<"repoFind", "Account">> \o ld.steps]

(* ------------------------------ actions -------------------------------- *)

AccountStart ==
    /\ remote = EmptyRepo
    /\ workdir = NoDir
    /\ result = NoAccount
    /\ nCreated = 0
    /\ last = NoCall
    /\ login = [dataKey |-> "k1"]
    /\ repos = {}
    /\ found = {}

(* No thread is inside generalEstimateFeesUpdate. *)
CallsIdle ==
    /\ mutex_ = NoThread
    /\ pc = [t \in Threads |-> "idle"]
    /\ frame = [t \in Threads |-> NoFrame]
    /\ returned = [b \in Buckets |-> 0]

(* No thread is inside generalUpdate. *)
NoRefresher ==
    /\ served = NoDoc
    /\ upc = [t \in Threads |-> "idle"]
    /\ uframe = [t \in Threads |-> NoUpdateFrame]
    /\ scoresAtStart = NoScoresFile

(* Process start: statics are zero, no estimate was persisted yet. *)
FeeStart ==
    /\ estimatedFeesInitialized = FALSE
    /\ estimatedFees = [s \in Slots |-> 0]
    /\ estimatedFeesNumResponses = [s \in Slots |-> 0]
    /\ feeFile = NoFeeFile
    /\ sampleSum = [b \in Buckets |-> 0]
    /\ lastFee = NoSubmit
    /\ CallsIdle
    /\ NoRefresher

(* No general configuration was cached yet. *)
GeneralStart ==
    /\ generalFile = NoGeneralFile
    /\ scoresFile = NoScoresFile
    /\ now = 0
    /\ feeInfo = NoFeeInfo
    /\ lastInfo = NoInfoCall
    /\ feeFileTime = 0
    /\ testnet = FALSE
    /\ ticks = 0
    /\ lastGen = NoGeneralCall

AccountInit == AccountStart /\ FeeStart /\ GeneralStart

(* Another device pushes a change to the remote repository. *)
RemoteChange ==
    /\ \E c \in RepoContents : c # remote /\ remote' = c
    /\ UNCHANGED <<workdir, result, nCreated, last, login, repos, found,
                   feeVars, genVars>>

Create ==
    /\ nCreated < MaxCreates
    /\ \E findOk \in BOOLEAN, ensureOk \in BOOLEAN, loadOk \in BOOLEAN :
        LET r == AccountCreate(result, nCreated + 1, workdir, remote,
                               findOk, ensureOk, loadOk) IN
        /\ result' = r.result
        /\ workdir' = r.dir
        /\ nCreated' = IF r.made THEN nCreated + 1 ELSE nCreated
        /\ last' = [op |-> "create", err |-> r.err, dirty |-> FALSE,
                    pullOk |-> FALSE, steps |-> r.steps,
                    preWallets |-> result.wallets, preWorkdir |-> workdir,
                    preResult |-> result]
        /\ repos' = RepoFind(findOk).repos
        /\ found' = IF r.err = "none"
                     THEN found \cup {[by |-> "create", purpose |-> AccountType,
                                       dataKey |-> RepoFind(findOk).dataKey,
                                       syncKey |-> r.result.syncKey]}
                     ELSE found
    /\ UNCHANGED <<remote, login, feeVars, genVars>>

Sync ==
    /\ result.valid
    /\ \E pullOk \in BOOLEAN, ensureOk \in BOOLEAN, loadOk \in BOOLEAN :
        LET r == AccountSync(result.wallets, workdir, remote,
                             pullOk, ensureOk, loadOk) IN
        /\ result' = [result EXCEPT !.wallets = r.wallets]
        /\ workdir' = r.dir
        /\ last' = [op |-> "sync", err |-> r.err, dirty |-> r.dirty,
                    pullOk |-> pullOk, steps |-> r.steps,
                    preWallets |-> result.wallets, preWorkdir |-> workdir,
                    preResult |-> result]
    /\ UNCHANGED <<remote, nCreated, login, repos, found, feeVars, genVars>>

AccountNext == RemoteChange \/ Create \/ Sync

SpecAccount == AccountInit /\ [][AccountNext]_vars

(* A session on either master key, nothing provisioned yet. *)
LoginInit ==
    /\ remote = EmptyRepo
    /\ workdir = NoDir
    /\ result = NoAccount
    /\ nCreated = 0
    /\ last = NoCall
    /\ login \in Logins
    /\ repos = {}
    /\ found = {}
    /\ FeeStart
    /\ GeneralStart

(* login.repoFind(result, type, create) called by any client of the Login *)
RepoFindCall ==
    /\ \E purpose \in Purposes, create \in BOOLEAN, ok \in BOOLEAN :
        LET info == LoginRepoFind(login, repos, purpose, create, ok) IN
        /\ repos' = info.repos
        /\ found' = IF info.ok
                     THEN found \cup {[by |-> "repoFind", purpose |-> purpose,
                                       dataKey |-> info.dataKey,
                                       syncKey |-> info.syncKey]}
                     ELSE found
    /\ UNCHANGED <<remote, workdir, result, nCreated, last, login,
                   feeVars, genVars>>

LoginNext == RepoFindCall \/ Create

SpecLogin == LoginInit /\ [][LoginNext]_vars

(* ------------------------- Account: properties ------------------------- *)

LoadSteps == <<"syncEnsureRepo", "wallets.load">>

(* C1: a sync() that succeeds with dirty=true has run load() within the    *)
(* call, so wallets equal what a load of the working copy produces; a      *)
(* sync() that succeeds with dirty=false has not invoked load() and has    *)
(* left wallets as they were before the call.                              *)
C1_DirtyPropagation ==
    (last.op = "sync" /\ last.err = "none") =>
        IF last.dirty
        THEN /\ last.steps = <<"syncRepo">> \o LoadSteps
             /\ result.wallets = WalletsOf(workdir)
        ELSE /\ last.steps = <<"syncRepo">>
             /\ result.wallets = last.preWallets

C1_Witness ==
    /\ last.op = "sync" /\ last.err = "none" /\ last.dirty
    /\ result.wallets # last.preWallets

(* C2: whenever a create() or sync() call has just returned success,       *)
(* wallets equal the content of the local working copy.                    *)
C2_WalletsReflectWorkdir ==
    (last.op \in {"create", "sync"} /\ last.err = "none") =>
        result.wallets = WalletsOf(workdir)

(* C3: when the pull fails, sync() returns that failure, invokes neither   *)
(* the ensure step nor wallets.load(), and leaves wallets as before.       *)
C3_PullFailureIsolated ==
    (last.op = "sync" /\ ~last.pullOk) =>
        /\ last.err = "syncRepo"
        /\ last.steps = <<"syncRepo">>
        /\ result.wallets = last.preWallets

C3_Witness ==
    /\ last.op = "sync" /\ ~last.pullOk
    /\ workdir # DirOf(remote)
    /\ result.wallets # remote.wallets

(* C4: whenever sync() returns a failure, both the working copy and the    *)
(* wallets are as they were before the call.                               *)
C4_FailedSyncNotHalfUpdated ==
    (last.op = "sync" /\ last.err # "none") =>
        /\ workdir = last.preWorkdir
        /\ result.wallets = last.preWallets

(* C5: create() runs repoFind, the constructor and load() in that order;   *)
(* the caller's handle is assigned only after all three succeeded and is   *)
(* left unchanged when repoFind or load() fails.                           *)
C5_CreateAllOrNothing ==
    (last.op = "create") =>
        /\ last.err = "none" =>
              /\ last.steps = <<"repoFind", "Account">> \o LoadSteps
              /\ result.valid /\ result.id = nCreated
              /\ result.id # last.preResult.id
        /\ last.err # "none" =>
              /\ result = last.preResult
              /\ last.steps \in {<<"repoFind">>,
                                 <<"repoFind", "Account", "syncEnsureRepo">>,
                                 <<"repoFind", "Account">> \o LoadSteps}

C5_Witness ==
    /\ last.op = "create" /\ last.err = "wallets.load"
    /\ last.preResult.valid
    /\ workdir.wallets # result.wallets

(* ----------------------- fee-estimate aggregator ----------------------- *)

(* (uint64_t) (fee * 100000000.0): truncation to whole base units. *)
BaseUnits(fee) == fee \div FeeUnit

(* tempFee = mean * n + sample; n++; mean = tempFee / n  (uint64 division) *)
FeeAverage(mean, n, sample) == ((mean * n) + sample) \div (n + 1)

(* The completeness test with bucket 5 forgotten. *)
FeesCompleteButLast(fees) == \A b \in Buckets \ {5} : fees[b] > 0

(* estimatedFees[1] > 0 && ... && estimatedFees[5] > 0 *)
FeesComplete(fees) == \A b \in Buckets : fees[b] > 0

AllSampled(counts) == \A b \in Buckets : counts[b] >= 1

TotalSamples == 
    estimatedFeesNumResponses[1] + estimatedFeesNumResponses[2]
    + estimatedFeesNumResponses[3] + estimatedFeesNumResponses[4]
    + estimatedFeesNumResponses[5]

(* The call undoing its update of the accumulator when the save fails. *)
GeneralEstimateFeesUpdateRollback(blocks, fee, saveOk) ==
    LET fees0 == IF estimatedFeesInitialized THEN estimatedFees
                 ELSE [s \in Slots |-> IF s \in Buckets THEN 0
                                       ELSE estimatedFees[s]]
        cnt0 == IF estimatedFeesInitialized THEN estimatedFeesNumResponses
                ELSE [s \in Slots |-> IF s \in Buckets THEN 0
                                      ELSE estimatedFeesNumResponses[s]]
        sample == BaseUnits(fee)
        mean == FeeAverage(fees0[blocks], cnt0[blocks], sample)
        fees1 == [fees0 EXCEPT ![blocks] = mean]
        cnt1 == [cnt0 EXCEPT ![blocks] = @ + 1]
        complete == FeesComplete(fees1)
    IN
    /\ estimatedFeesInitialized' = TRUE
    /\ estimatedFees' = IF complete /\ ~saveOk THEN fees0 ELSE fees1
    /\ estimatedFeesNumResponses' = IF complete /\ ~saveOk THEN cnt0 ELSE cnt1
    /\ sampleSum' = [sampleSum EXCEPT ![blocks] = @ + sample]
    /\ feeFile' = IF complete /\ saveOk
                  THEN [present |-> TRUE, fees |-> [b \in Buckets |-> fees1[b]]]
                  ELSE feeFile
    /\ feeFileTime' = IF complete /\ saveOk THEN now ELSE feeFileTime
    /\ lastFee' = [op |-> "submit", blocks |-> blocks, sample |-> sample,
                   complete |-> complete, saveOk |-> saveOk,
                   wrote |-> (complete /\ saveOk),
                   err |-> IF complete /\ ~saveOk THEN "save" ELSE "none"]

(* The call zeroing the buckets again on every submit to bucket 5. *)
GeneralEstimateFeesUpdateReinit(blocks, fee, saveOk) ==
    LET fees0 == IF estimatedFeesInitialized /\ blocks # 5 THEN estimatedFees
                 ELSE [s \in Slots |-> IF s \in Buckets THEN 0
                                       ELSE estimatedFees[s]]
        cnt0 == IF estimatedFeesInitialized /\ blocks # 5
                THEN estimatedFeesNumResponses
                ELSE [s \in Slots |-> IF s \in Buckets THEN 0
                                      ELSE estimatedFeesNumResponses[s]]
        sample == BaseUnits(fee)
        mean == FeeAverage(fees0[blocks], cnt0[blocks], sample)
        fees1 == [fees0 EXCEPT ![blocks] = mean]
        cnt1 == [cnt0 EXCEPT ![blocks] = @ + 1]
        complete == FeesComplete(fees1)
    IN
    /\ estimatedFeesInitialized' = TRUE
    /\ estimatedFees' = fees1
    /\ estimatedFeesNumResponses' = cnt1
    /\ sampleSum' = [sampleSum EXCEPT ![blocks] = @ + sample]
    /\ feeFile' = IF complete /\ saveOk
                  THEN [present |-> TRUE, fees |-> [b \in Buckets |-> fees1[b]]]
                  ELSE feeFile
    /\ feeFileTime' = IF complete /\ saveOk THEN now ELSE feeFileTime
    /\ lastFee' = [op |-> "submit", blocks |-> blocks, sample |-> sample,
                   complete |-> complete, saveOk |-> saveOk,
                   wrote |-> (complete /\ saveOk),
                   err |-> IF complete /\ ~saveOk THEN "save" ELSE "none"]

(* generalEstimateFeesUpdate(blocks, fee), under mutex_ for its whole body *)
GeneralEstimateFeesUpdate(blocks, fee, saveOk) ==
    LET fees0 == IF estimatedFeesInitialized THEN estimatedFees
                 ELSE [s \in Slots |-> IF s \in Buckets THEN 0
                                       ELSE estimatedFees[s]]
        cnt0 == IF estimatedFeesInitialized THEN estimatedFeesNumResponses
                ELSE [s \in Slots |-> IF s \in Buckets THEN 0
                                      ELSE estimatedFeesNumResponses[s]]
        sample == BaseUnits(fee)
        mean == FeeAverage(fees0[blocks], cnt0[blocks], sample)
        fees1 == [fees0 EXCEPT ![blocks] = mean]
        cnt1 == [cnt0 EXCEPT ![blocks] = @ + 1]
        complete == FeesComplete(fees1)
    IN
    /\ estimatedFeesInitialized' = TRUE
    /\ estimatedFees' = fees1
    /\ estimatedFeesNumResponses' = cnt1
    /\ sampleSum' = [sampleSum EXCEPT ![blocks] = @ + sample]
    /\ feeFile' = IF complete /\ saveOk
                  THEN [present |-> TRUE, fees |-> [b \in Buckets |-> fees1[b]]]
                  ELSE feeFile
    /\ feeFileTime' = IF complete /\ saveOk THEN now ELSE feeFileTime
    /\ lastFee' = [op |-> "submit", blocks |-> blocks, sample |-> sample,
                   complete |-> complete, saveOk |-> saveOk,
                   wrote |-> (complete /\ saveOk),
                   err |-> IF complete /\ ~saveOk THEN "save" ELSE "none"]

(* A caller submits a sample: blocks within the buckets the function       *)
(* initializes and saves (1..5), fee non-negative.                         *)
Submit ==
    /\ TotalSamples < MaxSubmits
    /\ \E blocks \in Buckets, fee \in 0..MaxFeeInput, saveOk \in BOOLEAN :
          GeneralEstimateFeesUpdate(blocks, fee, saveOk)
    /\ UNCHANGED <<accVars, generalFile, scoresFile, now, feeInfo, lastInfo,
                   testnet, ticks, lastGen, threadVars>>

FeesInit == AccountStart /\ FeeStart /\ GeneralStart

FeesNext == Submit

SpecFees == FeesInit /\ [][FeesNext]_vars

(* ------------- fee-estimate aggregator: concurrent callers ------------- *)

(* The mutex taken as free whoever holds it. *)
MutexNeverHeld(m) == TRUE

(* std::lock_guard<std::mutex> lock(mutex_) proceeds when mutex_ is free *)
MutexFree(m) == m = NoThread

CallsStarted ==
    Cardinality({t \in Threads : pc[t] # "idle"})
    + returned[1] + returned[2] + returned[3] + returned[4] + returned[5]

(* What a thread's step leaves alone besides the aggregator itself. *)
CallFrame ==
    UNCHANGED <<accVars, sampleSum, lastFee, generalFile, scoresFile, now,
                feeInfo, lastInfo, testnet, ticks, lastGen, raceVars>>

(* Thread t enters generalEstimateFeesUpdate(blocks, fee) and takes mutex_ *)
Lock(t) ==
    /\ pc[t] = "idle"
    /\ CallsStarted < MaxCalls
    /\ MutexFree(mutex_)
    /\ \E blocks \in Buckets, fee \in {FeeUnit, 2 * FeeUnit} :
          frame' = [frame EXCEPT ![t] = [blocks |-> blocks,
                                         sample |-> BaseUnits(fee),
                                         tempFee |-> 0]]
    /\ mutex_' = t
    /\ pc' = [pc EXCEPT ![t] = "init"]
    /\ UNCHANGED <<estimatedFeesInitialized, estimatedFees,
                   estimatedFeesNumResponses, feeFile, feeFileTime, returned>>
    /\ CallFrame

(* if (!estimatedFeesInitialized) { ... } *)
InitStatics(t) ==
    /\ pc[t] = "init"
    /\ estimatedFeesInitialized' = TRUE
    /\ estimatedFees' =
          IF estimatedFeesInitialized THEN estimatedFees
          ELSE [s \in Slots |-> IF s \in Buckets THEN 0 ELSE estimatedFees[s]]
    /\ estimatedFeesNumResponses' =
          IF estimatedFeesInitialized THEN estimatedFeesNumResponses
          ELSE [s \in Slots |-> IF s \in Buckets THEN 0
                                ELSE estimatedFeesNumResponses[s]]
    /\ pc' = [pc EXCEPT ![t] = "sum"]
    /\ UNCHANGED <<mutex_, frame, feeFile, feeFileTime, returned>>
    /\ CallFrame

(* uint64_t tempFee = estimatedFees[blocks] * NumResponses[blocks] + sample *)
SumFee(t) ==
    /\ pc[t] = "sum"
    /\ frame' = [frame EXCEPT ![t].tempFee =
                     (estimatedFees[frame[t].blocks]
                        * estimatedFeesNumResponses[frame[t].blocks])
                     + frame[t].sample]
    /\ pc' = [pc EXCEPT ![t] = "count"]
    /\ UNCHANGED <<mutex_, estimatedFeesInitialized, estimatedFees,
                   estimatedFeesNumResponses, feeFile, feeFileTime, returned>>
    /\ CallFrame

(* estimatedFeesNumResponses[blocks]++ *)
CountResponse(t) ==
    /\ pc[t] = "count"
    /\ estimatedFeesNumResponses' =
          [estimatedFeesNumResponses EXCEPT ![frame[t].blocks] = @ + 1]
    /\ pc' = [pc EXCEPT ![t] = "mean"]
    /\ UNCHANGED <<mutex_, frame, estimatedFeesInitialized, estimatedFees,
                   feeFile, feeFileTime, returned>>
    /\ CallFrame

(* estimatedFees[blocks] = tempFee / estimatedFeesNumResponses[blocks] *)
StoreMean(t) ==
    /\ pc[t] = "mean"
    /\ estimatedFees' =
          [estimatedFees EXCEPT ![frame[t].blocks] =
              frame[t].tempFee \div estimatedFeesNumResponses[frame[t].blocks]]
    /\ pc' = [pc EXCEPT ![t] = "save"]
    /\ UNCHANGED <<mutex_, frame, estimatedFeesInitialized,
                   estimatedFeesNumResponses, feeFile, feeFileTime, returned>>
    /\ CallFrame

(* if (estimatedFees[1] > 0 && ...) ABC_CHECK(feesJson.save(path)) *)
SaveFees(t) ==
    /\ pc[t] = "save"
    /\ \E saveOk \in (IF FeesComplete(estimatedFees) THEN BOOLEAN
                       ELSE {FALSE}) :
          /\ feeFile' = IF saveOk
                        THEN [present |-> TRUE,
                              fees |-> [b \in Buckets |-> estimatedFees[b]]]
                        ELSE feeFile
          /\ feeFileTime' = IF saveOk THEN now ELSE feeFileTime
    /\ pc' = [pc EXCEPT ![t] = "return"]
    /\ UNCHANGED <<mutex_, frame, estimatedFeesInitialized, estimatedFees,
                   estimatedFeesNumResponses, returned>>
    /\ CallFrame

(* return: the lock_guard releases mutex_ *)
Unlock(t) ==
    /\ pc[t] = "return"
    /\ mutex_' = IF mutex_ = t THEN NoThread ELSE mutex_
    /\ returned' = [returned EXCEPT ![frame[t].blocks] = @ + 1]
    /\ frame' = [frame EXCEPT ![t] = NoFrame]
    /\ pc' = [pc EXCEPT ![t] = "idle"]
    /\ UNCHANGED <<estimatedFeesInitialized, estimatedFees,
                   estimatedFeesNumResponses, feeFile, feeFileTime>>
    /\ CallFrame

ThreadsInit == AccountStart /\ FeeStart /\ GeneralStart

ThreadsNext ==
    \E t \in Threads :
        \/ Lock(t)
        \/ InitStatics(t)
        \/ SumFee(t)
        \/ CountResponse(t)
        \/ StoreMean(t)
        \/ SaveFees(t)
        \/ Unlock(t)

SpecThreads == ThreadsInit /\ [][ThreadsNext]_vars

(* --------------------- general configuration cache --------------------- *)

(* The score list taken as empty whatever the file holds. *)
ServerScoresLoadEmpty(sf) == <<>>

(* serverScoresLoad() *)
ServerScoresLoad(sf) == IF sf.present THEN sf.scores ELSE <<>>

(* generalUpdate(): the loop adding the servers that have no score record *)
RECURSIVE AddNewServers(_, _, _)
AddNewServers(scores, servers, i) ==
    IF i > Len(servers) THEN scores
    ELSE LET serverUrlNew == UrlOf(servers[i])
             serversMatch ==
                 \E j \in 1..Len(scores) :
                     IEquals(scores[j].serverUrl, serverUrlNew)
         IN AddNewServers(
                IF serversMatch THEN scores
                ELSE Append(scores, [serverUrl |-> serverUrlNew,
                                     serverScore |-> 0]),
                servers, i + 1)

(* The test with a file aged exactly the threshold taken as stale. *)
GeneralStaleInclusive(gf, t) ==
    ~gf.present \/ gf.mtime + GENERAL_ACCEPTABLE_INFO_FILE_AGE_SECS <= t

(* !fileTime(lastTime, path) || lastTime + AGE < time(nullptr) *)
GeneralStale(gf, t) ==
    ~gf.present \/ gf.mtime + GENERAL_ACCEPTABLE_INFO_FILE_AGE_SECS < t

(* generalUpdate() saving what the fetch left in infoJson, the status of   *)
(* loginServerGetGeneral being checked only after the save.                *)
GeneralUpdateSaveFirst(gf, sf, t, fetch, saveOk, scoresSaveOk) ==
    IF GeneralStale(gf, t)
    THEN IF ~saveOk
         THEN [err |-> IF fetch.ok THEN "save" ELSE "fetch",
               general |-> gf, scores |-> sf, fetched |-> TRUE]
         ELSE LET g == [present |-> TRUE, mtime |-> t,
                        fees |-> fetch.doc.fees,
                        servers |-> fetch.doc.servers,
                        syncServers |-> fetch.doc.syncServers]
                  rec == AddNewServers(ServerScoresLoad(sf), g.servers, 1)
              IN IF ~fetch.ok
                 THEN [err |-> "fetch", general |-> g, scores |-> sf,
                       fetched |-> TRUE]
                 ELSE [err |-> "none", general |-> g,
                       scores |-> IF scoresSaveOk
                                  THEN [present |-> TRUE, scores |-> rec]
                                  ELSE sf,
                       fetched |-> TRUE]
    ELSE [err |-> "none", general |-> gf, scores |-> sf, fetched |-> FALSE]

(* generalUpdate(); fetch is the outcome of loginServerGetGeneral *)
GeneralUpdate(gf, sf, t, fetch, saveOk, scoresSaveOk) ==
    IF GeneralStale(gf, t)
    THEN IF ~fetch.ok
         THEN [err |-> "fetch", general |-> gf, scores |-> sf, fetched |-> TRUE]
         ELSE IF ~saveOk
         THEN [err |-> "save", general |-> gf, scores |-> sf, fetched |-> TRUE]
         ELSE LET g == [present |-> TRUE, mtime |-> t,
                        fees |-> fetch.doc.fees,
                        servers |-> fetch.doc.servers,
                        syncServers |-> fetch.doc.syncServers]
                  rec == AddNewServers(ServerScoresLoad(sf), g.servers, 1)
              IN [err |-> "none", general |-> g,
                  scores |-> IF scoresSaveOk
                             THEN [present |-> TRUE, scores |-> rec]
                             ELSE sf,
                  fetched |-> TRUE]
    ELSE [err |-> "none", general |-> gf, scores |-> sf, fetched |-> FALSE]

(* generalLoad() without the update of a missing file. *)
GeneralLoadNoUpdate(gf, sf, t, fetch, saveOk, scoresSaveOk) ==
    [err |-> "none", general |-> gf, scores |-> sf, fetched |-> FALSE,
     bitcoinFees |-> IF gf.present THEN gf.fees ELSE NoFeeTable,
     bitcoinServers |-> IF gf.present THEN gf.servers ELSE <<>>,
     syncServers |-> IF gf.present THEN gf.syncServers ELSE <<>>]

(* generalLoad(): the snapshot is read from the file, after an update if   *)
(* the file does not exist.                                                *)
GeneralLoad(gf, sf, t, fetch, saveOk, scoresSaveOk) ==
    LET upd == IF ~gf.present
               THEN GeneralUpdate(gf, sf, t, fetch, saveOk, scoresSaveOk)
               ELSE [err |-> "none", general |-> gf, scores |-> sf,
                     fetched |-> FALSE]
    IN [err |-> upd.err, general |-> upd.general, scores |-> upd.scores,
        fetched |-> upd.fetched,
        bitcoinFees |-> IF upd.general.present THEN upd.general.fees
                        ELSE NoFeeTable,
        bitcoinServers |-> IF upd.general.present THEN upd.general.servers
                           ELSE <<>>,
        syncServers |-> IF upd.general.present THEN upd.general.syncServers
                        ELSE <<>>]

(* estimateFeesLoad() ignoring a file older than the acceptable age. *)
EstimateFeesLoadFreshOnly(ff) ==
    [i \in Targets |->
        IF /\ ff.present /\ i \in Buckets
           /\ ~(feeFileTime + ESTIMATED_FEES_ACCEPTABLE_INFO_FILE_AGE_SECS < now)
        THEN ff.fees[i] ELSE 0]

(* estimateFeesLoad(): confirmFees1..6 of the file, 0 where not stored *)
EstimateFeesLoad(ff) ==
    [i \in Targets |-> IF ff.present /\ i \in Buckets THEN ff.fees[i] ELSE 0]

(* BitcoinFeesJson::confirmFeesN(): the field, or its default *)
ConfirmFeesOf(table, i) ==
    IF table[i] = Absent THEN DefaultConfirmFees[i] ELSE table[i]

(* The choice with the cached table value taking precedence. *)
ChooseFeeCachedFirst(estimate, cached) ==
    IF cached # 0 THEN cached ELSE estimate

(* estimateFeesJson.confirmFeesN() ? estimate : feeJson.confirmFeesN() *)
ChooseFee(estimate, cached) ==
    IF estimate # 0 THEN estimate ELSE cached

(* The repair with the last comparison (6 against 5) left out. *)
FixContradictingFeesNoLast(c) ==
    LET f1 == c[1]
        f2 == IF c[2] > f1 THEN f1 ELSE c[2]
        f3 == IF c[3] > f2 THEN f2 ELSE c[3]
        f4 == IF c[4] > f3 THEN f3 ELSE c[4]
        f5 == IF c[5] > f4 THEN f4 ELSE c[5]
    IN <<f1, f2, f3, f4, f5, c[6]>>

(* "Fix any fees that contradict": five successive in-place comparisons *)
FixContradictingFees(c) ==
    LET f1 == c[1]
        f2 == IF c[2] > f1 THEN f1 ELSE c[2]
        f3 == IF c[3] > f2 THEN f2 ELSE c[3]
        f4 == IF c[4] > f3 THEN f3 ELSE c[4]
        f5 == IF c[5] > f4 THEN f4 ELSE c[5]
        f6 == IF c[6] > f5 THEN f5 ELSE c[6]
    IN <<f1, f2, f3, f4, f5, f6>>

(* The record of a call that went through generalLoad() or generalUpdate(). *)
LoadCall(op, ld, fetch, saveOk, scoresSaveOk, out) ==
    [op |-> op, err |-> ld.err, fetched |-> ld.fetched,
     fetchOk |-> (ld.fetched /\ fetch.ok),
     saveOk |-> (ld.fetched /\ fetch.ok /\ saveOk),
     scoresSaveOk |-> (ld.fetched /\ fetch.ok /\ saveOk /\ scoresSaveOk),
     prePresent |-> generalFile.present, preMtime |-> generalFile.mtime,
     at |-> now, out |-> out, need |-> FALSE]

(* generalBitcoinFeeInfo(); docs are the documents the server may return *)
GeneralBitcoinFeeInfo(docs) ==
    \E fetch \in IF generalFile.present THEN {NoFetch} ELSE FetchOutcomes(docs),
       saveOk \in IF generalFile.present THEN {TRUE} ELSE BOOLEAN,
       scoresSaveOk \in IF generalFile.present THEN {TRUE} ELSE BOOLEAN :
        LET ld == GeneralLoad(generalFile, scoresFile, now, fetch,
                              saveOk, scoresSaveOk)
            est == EstimateFeesLoad(feeFile)
            chosen == [i \in Targets |->
                          ChooseFee(est[i], ConfirmFeesOf(ld.bitcoinFees, i))]
        IN /\ generalFile' = ld.general
           /\ scoresFile' = ld.scores
           /\ feeInfo' = FixContradictingFees(chosen)
           /\ lastInfo' = [op |-> "feeInfo", err |-> ld.err,
                           fetched |-> ld.fetched, chosen |-> chosen]
           /\ lastGen' = LoadCall("generalBitcoinFeeInfo", ld, fetch,
                                  saveOk, scoresSaveOk, <<>>)
           /\ UNCHANGED <<now, feeFileTime, testnet, ticks, accVars, feeVars>>

(* A start with files left by earlier runs: any cached fee table, any      *)
(* estimate file a complete set of samples can have produced.              *)
FeeInfoInit ==
    /\ AccountStart
    /\ CallsIdle
    /\ NoRefresher
    /\ estimatedFeesInitialized = FALSE
    /\ estimatedFees = [s \in Slots |-> 0]
    /\ estimatedFeesNumResponses = [s \in Slots |-> 0]
    /\ sampleSum = [b \in Buckets |-> 0]
    /\ lastFee = NoSubmit
    /\ feeFile \in {NoFeeFile} \cup
                   {[present |-> TRUE, fees |-> f] :
                        f \in [Buckets -> 1..MaxEstimate]}
    /\ generalFile \in {NoGeneralFile} \cup
                       {[present |-> TRUE, mtime |-> 0, fees |-> t,
                         servers |-> <<>>, syncServers |-> <<>>] :
                            t \in FeeTables}
    /\ scoresFile = NoScoresFile
    /\ now = 0
    /\ feeInfo = NoFeeInfo
    /\ lastInfo = NoInfoCall
    /\ feeFileTime = 0
    /\ testnet = FALSE
    /\ ticks = 0
    /\ lastGen = NoGeneralCall

FeeInfoNext == GeneralBitcoinFeeInfo(FeeInfoDocs)

SpecFeeInfo == FeeInfoInit /\ [][FeeInfoNext]_vars

(* ------------------- general cache: calls and clock -------------------- *)

FALLBACK_BITCOIN_SERVERS ==
    <<"tcp://obelisk.airbitz.co:9091",
      "stratum://stratum-az-wusa.airbitz.co:50001",
      "stratum://stratum-az-wjapan.airbitz.co:50001",
      "stratum://stratum-az-neuro.airbitz.co:50001">>

TESTNET_BITCOIN_SERVERS == <<"tcp://obelisk-testnet.airbitz.co:9091">>

FALLBACK_SYNC_SERVERS == <<"https://git.sync.airbitz.co/repos">>

(* The loop pushing the entries that are JSON strings. *)
StringsOf(array) == SelectSeq(array, LAMBDA e : e # NotAString)

(* generalBitcoinServers() without the fallback for an empty list. *)
BitcoinServersNoFallback(snapshot) == StringsOf(snapshot.bitcoinServers)

(* generalBitcoinServers(), given the snapshot generalLoad() returned *)
BitcoinServersOf(snapshot) ==
    IF StringsOf(snapshot.bitcoinServers) = <<>>
    THEN FALLBACK_BITCOIN_SERVERS
    ELSE StringsOf(snapshot.bitcoinServers)

(* generalSyncServers(), given the snapshot generalLoad() returned *)
SyncServersOf(snapshot) ==
    IF StringsOf(snapshot.syncServers) = <<>>
    THEN FALLBACK_SYNC_SERVERS
    ELSE StringsOf(snapshot.syncServers)

(* The test with a file aged exactly the threshold taken as stale. *)
EstimateFeesStaleInclusive(ff, mtime, t) ==
    ~ff.present \/ mtime + ESTIMATED_FEES_ACCEPTABLE_INFO_FILE_AGE_SECS <= t

(* !fileTime(lastTime, path) || lastTime + AGE < time(nullptr) *)
EstimateFeesStale(ff, mtime, t) ==
    ~ff.present \/ mtime + ESTIMATED_FEES_ACCEPTABLE_INFO_FILE_AGE_SECS < t

(* The clock advances by one of the given numbers of seconds. *)
Tick(steps) ==
    /\ ticks < MaxTicks
    /\ \E d \in steps : now' = now + d
    /\ ticks' = ticks + 1
    /\ UNCHANGED <<generalFile, scoresFile, feeInfo, lastInfo, feeFileTime,
                   testnet, lastGen, accVars, feeVars>>

(* A caller runs generalUpdate(). *)
GeneralUpdateCall(docs) ==
    \E fetch \in IF GeneralStale(generalFile, now)
                 THEN FetchOutcomes(docs) ELSE {NoFetch},
       saveOk \in IF GeneralStale(generalFile, now) THEN BOOLEAN ELSE {TRUE},
       scoresSaveOk \in IF GeneralStale(generalFile, now)
                        THEN BOOLEAN ELSE {TRUE} :
        LET upd == GeneralUpdate(generalFile, scoresFile, now, fetch,
                                 saveOk, scoresSaveOk)
        IN /\ generalFile' = upd.general
           /\ scoresFile' = upd.scores
           /\ lastGen' = LoadCall("generalUpdate", upd, fetch,
                                  saveOk, scoresSaveOk, <<>>)
           /\ UNCHANGED <<now, feeInfo, lastInfo, feeFileTime, testnet, ticks,
                          accVars, feeVars>>

(* generalBitcoinServers() *)
GeneralBitcoinServers(docs) ==
    IF testnet
    THEN /\ lastGen' = [NoGeneralCall EXCEPT
                            !.op = "generalBitcoinServers",
                            !.prePresent = generalFile.present,
                            !.preMtime = generalFile.mtime,
                            !.at = now,
                            !.out = TESTNET_BITCOIN_SERVERS]
         /\ UNCHANGED <<generalFile, scoresFile, now, feeInfo, lastInfo,
                        feeFileTime, testnet, ticks, accVars, feeVars>>
    ELSE \E fetch \in IF generalFile.present
                      THEN {NoFetch} ELSE FetchOutcomes(docs),
            saveOk \in IF generalFile.present THEN {TRUE} ELSE BOOLEAN,
            scoresSaveOk \in IF generalFile.present THEN {TRUE} ELSE BOOLEAN :
            LET ld == GeneralLoad(generalFile, scoresFile, now, fetch,
                                  saveOk, scoresSaveOk)
            IN /\ generalFile' = ld.general
               /\ scoresFile' = ld.scores
               /\ lastGen' = LoadCall("generalBitcoinServers", ld, fetch,
                                      saveOk, scoresSaveOk,
                                      BitcoinServersOf(ld))
               /\ UNCHANGED <<now, feeInfo, lastInfo, feeFileTime, testnet,
                              ticks, accVars, feeVars>>

(* generalSyncServers() *)
GeneralSyncServers(docs) ==
    \E fetch \in IF generalFile.present THEN {NoFetch} ELSE FetchOutcomes(docs),
       saveOk \in IF generalFile.present THEN {TRUE} ELSE BOOLEAN,
       scoresSaveOk \in IF generalFile.present THEN {TRUE} ELSE BOOLEAN :
        LET ld == GeneralLoad(generalFile, scoresFile, now, fetch,
                              saveOk, scoresSaveOk)
        IN /\ generalFile' = ld.general
           /\ scoresFile' = ld.scores
           /\ lastGen' = LoadCall("generalSyncServers", ld, fetch,
                                  saveOk, scoresSaveOk, SyncServersOf(ld))
           /\ UNCHANGED <<now, feeInfo, lastInfo, feeFileTime, testnet,
                          ticks, accVars, feeVars>>

(* generalEstimateFeesNeedUpdate() *)
GeneralEstimateFeesNeedUpdate ==
    /\ lastGen' = [NoGeneralCall EXCEPT
                       !.op = "generalEstimateFeesNeedUpdate",
                       !.prePresent = generalFile.present,
                       !.preMtime = generalFile.mtime,
                       !.at = now,
                       !.need = EstimateFeesStale(feeFile, feeFileTime, now)]
    /\ UNCHANGED <<generalFile, scoresFile, now, feeInfo, lastInfo,
                   feeFileTime, testnet, ticks, accVars, feeVars>>

(* Score lists left by earlier runs, with scores learnt since. *)
InitialScores ==
    {NoScoresFile,
     [present |-> TRUE,
      scores |-> <<[serverUrl |-> "A", serverScore |-> 5]>>],
     [present |-> TRUE,
      scores |-> <<[serverUrl |-> "b", serverScore |-> 3]>>]}

(* Process start with the aggregator statics zero and no account. *)
ProcessStart ==
    /\ AccountStart
    /\ CallsIdle
    /\ NoRefresher
    /\ estimatedFeesInitialized = FALSE
    /\ estimatedFees = [s \in Slots |-> 0]
    /\ estimatedFeesNumResponses = [s \in Slots |-> 0]
    /\ sampleSum = [b \in Buckets |-> 0]
    /\ lastFee = NoSubmit
    /\ feeInfo = NoFeeInfo
    /\ lastInfo = NoInfoCall
    /\ ticks = 0
    /\ lastGen = NoGeneralCall

(* An estimate file left by an earlier run. *)
OldFeeFile == [present |-> TRUE, fees |-> [b \in Buckets |-> MaxEstimate]]

(* A start without a general cache file; the score list may be left by an  *)
(* earlier run; the build is mainnet.                                      *)
GeneralInit ==
    /\ ProcessStart
    /\ feeFile = NoFeeFile
    /\ feeFileTime = 0
    /\ generalFile = NoGeneralFile
    /\ scoresFile \in InitialScores
    /\ now = 0
    /\ testnet = FALSE

GeneralNext ==
    \/ Tick({1})
    \/ GeneralUpdateCall(RefreshDocs)
    \/ GeneralBitcoinServers(ReadDocs)
    \/ GeneralSyncServers(ReadDocs)
    \/ GeneralBitcoinFeeInfo(ReadDocs)

SpecGeneral == GeneralInit /\ [][GeneralNext]_vars

(* A start without a general cache file; the estimate file may be left by  *)
(* an earlier run; the build is mainnet or testnet.                        *)
AccessorsInit ==
    /\ ProcessStart
    /\ feeFile \in {NoFeeFile, OldFeeFile}
    /\ feeFileTime = 0
    /\ generalFile = NoGeneralFile
    /\ scoresFile = NoScoresFile
    /\ now = 0
    /\ testnet \in BOOLEAN

AccessorsNext ==
    \/ GeneralBitcoinServers(AccessorDocs)
    \/ GeneralSyncServers(AccessorDocs)
    \/ GeneralBitcoinFeeInfo(AccessorDocs)

SpecAccessors == AccessorsInit /\ [][AccessorsNext]_vars

(* A start some seconds after an earlier run left, or did not leave, an    *)
(* estimate file.                                                          *)
StaleInit ==
    /\ ProcessStart
    /\ feeFile \in {NoFeeFile, OldFeeFile}
    /\ feeFileTime = 0
    /\ generalFile = NoGeneralFile
    /\ scoresFile = NoScoresFile
    /\ now \in {0, 1}
    /\ testnet = FALSE

StaleNext ==
    \/ Tick({1, ESTIMATED_FEES_ACCEPTABLE_INFO_FILE_AGE_SECS - 1})
    \/ GeneralUpdateCall(StaleDocs)
    \/ GeneralEstimateFeesNeedUpdate

SpecStale == StaleInit /\ [][StaleNext]_vars

(* The fee accessor and the age test of the estimate file, as the clock    *)
(* moves past the acceptable age.                                          *)
OldEstimateNext ==
    \/ Tick({1, ESTIMATED_FEES_ACCEPTABLE_INFO_FILE_AGE_SECS - 1})
    \/ GeneralEstimateFeesNeedUpdate
    \/ GeneralBitcoinFeeInfo(AccessorDocs)

SpecOldEstimate == StaleInit /\ [][OldEstimateNext]_vars

(* ----------------- general cache: concurrent refreshers ---------------- *)

(* The servers taken as none whatever the saved document holds. *)
GeneralServersLoadNone(gf) == <<>>

(* generalJson.load(path).log(); generalJson.bitcoinServers() *)
GeneralServersLoad(gf) == IF gf.present THEN gf.servers ELSE <<>>

(* What a step of generalUpdate leaves alone besides the two files. *)
UpdateFrame ==
    UNCHANGED <<accVars, estimatedFeesInitialized, estimatedFees,
                estimatedFeesNumResponses, feeFile, sampleSum, lastFee,
                callVars, served, scoresAtStart, now, feeInfo, lastInfo,
                feeFileTime, testnet, ticks, lastGen>>

(* if (!fileTime(lastTime, path) || lastTime + AGE < time(nullptr)) *)
CheckStale(t) ==
    /\ upc[t] = "idle"
    /\ upc' = [upc EXCEPT ![t] = IF GeneralStale(generalFile, now)
                                 THEN "fetch" ELSE "fresh"]
    /\ UNCHANGED <<generalFile, scoresFile, uframe>>
    /\ UpdateFrame

(* ABC_CHECK(loginServerGetGeneral(infoJson)) *)
FetchInfo(t) ==
    /\ upc[t] = "fetch"
    /\ \E ok \in BOOLEAN :
          upc' = [upc EXCEPT ![t] = IF ok THEN "save" ELSE "failed"]
    /\ UNCHANGED <<generalFile, scoresFile, uframe>>
    /\ UpdateFrame

(* ABC_CHECK(infoJson.save(path)) *)
SaveInfo(t) ==
    /\ upc[t] = "save"
    /\ \E ok \in BOOLEAN :
          /\ generalFile' = IF ok
                            THEN [present |-> TRUE, mtime |-> now,
                                  fees |-> served.fees,
                                  servers |-> served.servers,
                                  syncServers |-> served.syncServers]
                            ELSE generalFile
          /\ upc' = [upc EXCEPT ![t] = IF ok THEN "loadScores" ELSE "failed"]
    /\ UNCHANGED <<scoresFile, uframe>>
    /\ UpdateFrame

(* JsonArray serverScoresJson = serverScoresLoad() *)
LoadScores(t) ==
    /\ upc[t] = "loadScores"
    /\ uframe' = [uframe EXCEPT ![t].scores = ServerScoresLoad(scoresFile)]
    /\ upc' = [upc EXCEPT ![t] = "loadGeneral"]
    /\ UNCHANGED <<generalFile, scoresFile>>
    /\ UpdateFrame

(* generalJson.load(path).log(); arrayJson = generalJson.bitcoinServers() *)
LoadGeneral(t) ==
    /\ upc[t] = "loadGeneral"
    /\ uframe' = [uframe EXCEPT ![t].servers = GeneralServersLoad(generalFile)]
    /\ upc' = [upc EXCEPT ![t] = "saveScores"]
    /\ UNCHANGED <<generalFile, scoresFile>>
    /\ UpdateFrame

(* the loop over arrayJson, then serverScoresJson.save(scoresPath) *)
SaveScores(t) ==
    /\ upc[t] = "saveScores"
    /\ \E ok \in BOOLEAN :
          /\ scoresFile' =
                IF ok
                THEN [present |-> TRUE,
                      scores |-> AddNewServers(uframe[t].scores,
                                               uframe[t].servers, 1)]
                ELSE scoresFile
          /\ upc' = [upc EXCEPT ![t] = IF ok THEN "refreshed"
                                       ELSE "unsaved"]
    /\ uframe' = [uframe EXCEPT ![t] = NoUpdateFrame]
    /\ UNCHANGED generalFile
    /\ UpdateFrame

(* The cache file absent, or stale with an older document; the score list *)
(* may be left by an earlier run; the server has one document to return.  *)
RaceInit ==
    /\ AccountStart
    /\ estimatedFeesInitialized = FALSE
    /\ estimatedFees = [s \in Slots |-> 0]
    /\ estimatedFeesNumResponses = [s \in Slots |-> 0]
    /\ feeFile = NoFeeFile
    /\ sampleSum = [b \in Buckets |-> 0]
    /\ lastFee = NoSubmit
    /\ CallsIdle
    /\ served \in RefreshDocs
    /\ upc = [t \in Threads |-> "idle"]
    /\ uframe = [t \in Threads |-> NoUpdateFrame]
    /\ scoresFile \in InitialScores
    /\ scoresAtStart = scoresFile
    /\ \/ generalFile = NoGeneralFile /\ now = 0
       \/ /\ generalFile = [present |-> TRUE, mtime |-> 0,
                             fees |-> NoFeeTable, servers |-> <<"b">>,
                             syncServers |-> <<>>]
          /\ now = GENERAL_ACCEPTABLE_INFO_FILE_AGE_SECS + 1
    /\ feeInfo = NoFeeInfo
    /\ lastInfo = NoInfoCall
    /\ feeFileTime = 0
    /\ testnet = FALSE
    /\ ticks = 0
    /\ lastGen = NoGeneralCall

RaceNext ==
    \E t \in Threads :
        \/ CheckStale(t)
        \/ FetchInfo(t)
        \/ SaveInfo(t)
        \/ LoadScores(t)
        \/ LoadGeneral(t)
        \/ SaveScores(t)

SpecRace == RaceInit /\ [][RaceNext]_vars

(* -------------------- fee-estimate aggregator: properties -------------- *)

(* C6: for each bucket 1..5 that has samples, the stored mean equals the   *)
(* arithmetic mean of all samples (base units) submitted to that bucket,   *)
(* whatever the order of submission; the stored value being a whole number *)
(* of base units, the mean is compared rounded down.                       *)
C6_MeanIsArithmeticMean ==
    \A b \in Buckets :
        estimatedFeesNumResponses[b] > 0 =>
            estimatedFees[b] = sampleSum[b] \div estimatedFeesNumResponses[b]

(* C7: the fee-estimate file is written by a submit only when each of the  *)
(* buckets 1..5 has received at least one sample.                          *)
C7_WriteOnlyWhenAllSampled ==
    (lastFee.wrote \/ feeFile.present) =>
        AllSampled(estimatedFeesNumResponses)

C7_Witness ==
    /\ lastFee.op = "submit" /\ lastFee.wrote /\ feeFile.present
    /\ TotalSamples > 5

(* C8: every submit after which all five buckets have a sample persists    *)
(* the document (the file write itself succeeding), and the persisted      *)
(* confirmFees1..5 equal the in-memory means.                              *)
C8_CompleteSubmitPersists ==
    (lastFee.op = "submit" /\ lastFee.saveOk
        /\ AllSampled(estimatedFeesNumResponses)) =>
            /\ lastFee.wrote
            /\ feeFile.present
            /\ \A b \in Buckets : feeFile.fees[b] = estimatedFees[b]

(* ------------------ effective fee table: properties -------------------- *)

(* The live estimate of a bucket, as the file on disk gives it. *)
LiveEstimate(i) == IF feeFile.present /\ i <= 5 THEN feeFile.fees[i] ELSE 0

(* The cached table value of a bucket, as the file on disk gives it. *)
CachedFee(i) ==
    IF generalFile.present /\ generalFile.fees[i] >= 0
    THEN generalFile.fees[i] ELSE DefaultConfirmFees[i]

Chosen(i) == IF LiveEstimate(i) # 0 THEN LiveEstimate(i) ELSE CachedFee(i)

MinOf(a, b) == IF a <= b THEN a ELSE b

(* C9: the table returned by generalBitcoinFeeInfo is non-increasing:      *)
(* confirmFees[1] >= confirmFees[2] >= ... >= confirmFees[6].              *)
C9_MonotoneFeeCurve ==
    (lastInfo.op = "feeInfo") =>
        \A i \in 1..5 : feeInfo[i] >= feeInfo[i + 1]

C9_Witness ==
    /\ lastInfo.op = "feeInfo"
    /\ feeFile.present /\ generalFile.present
    /\ Chosen(6) > Chosen(5)
    /\ Chosen(2) > Chosen(1)

(* C10: per bucket the live estimate is chosen when non-zero, the cached   *)
(* table value otherwise; the result is confirmFees[1] = chosen[1] and     *)
(* confirmFees[i] = min(chosen[i], confirmFees[i-1]) for i in 2..6.        *)
C10_ChosenThenClamped ==
    (lastInfo.op = "feeInfo") =>
        /\ feeInfo[1] = Chosen(1)
        /\ \A i \in 2..6 : feeInfo[i] = MinOf(Chosen(i), feeInfo[i - 1])

C10_Witness ==
    /\ lastInfo.op = "feeInfo"
    /\ feeFile.present /\ generalFile.present
    /\ CachedFee(6) # 0 /\ CachedFee(1) # LiveEstimate(1)
    /\ \E i \in 2..5 : /\ feeInfo[i] < Chosen(i)
                       /\ feeInfo[i + 1] < Chosen(i + 1)
                       /\ feeInfo[i + 1] < Chosen(i)

(* ------------------- general cache: properties ------------------------- *)

(* A score list has a record for the URL, compared case-insensitively. *)
Known(scores, u) ==
    \E j \in 1..Len(scores) : Lower(scores[j].serverUrl) = Lower(u)

(* The positions of a fetched array holding a URL that the score list does *)
(* not know and that no earlier position of the array holds; an entry that *)
(* is not a string is read as the empty URL.                               *)
NewPositions(scores, fetched) ==
    {i \in 1..Len(fetched) :
        /\ ~Known(scores, UrlOf(fetched[i]))
        /\ \A k \in 1..(i - 1) :
              Lower(UrlOf(fetched[k])) # Lower(UrlOf(fetched[i]))}

(* The k-th new position, in the order of the fetched array. *)
NthNew(scores, fetched, k) ==
    CHOOSE i \in NewPositions(scores, fetched) :
        Cardinality({j \in NewPositions(scores, fetched) : j <= i}) = k

(* new is old, unchanged, followed by one score-0 record per new URL. *)
Reconciled(old, fetched, new) ==
    /\ Len(new) = Len(old) + Cardinality(NewPositions(old, fetched))
    /\ \A j \in 1..Len(old) : new[j] = old[j]
    /\ \A k \in 1..Cardinality(NewPositions(old, fetched)) :
          new[Len(old) + k] =
              [serverUrl |-> UrlOf(fetched[NthNew(old, fetched, k)]),
               serverScore |-> 0]

RefreshDone(call) ==
    call.op = "generalUpdate" /\ call.fetched /\ call.err = "none"

(* C11: a refresh by generalUpdate whose writes succeed persists the score *)
(* list reconciled with the fetched document: the old list, same records,  *)
(* scores and order, followed by one record of score 0 for each fetched    *)
(* bitcoin-server URL without a case-insensitive match in the list.        *)
C11_RefreshReconcilesScores ==
    [][(RefreshDone(lastGen') /\ lastGen'.scoresSaveOk /\ now' = now) =>
          /\ scoresFile'.present
          /\ Reconciled(scoresFile.scores, generalFile'.servers,
                        scoresFile'.scores)]_vars

C11_Witness ==
    /\ RefreshDone(lastGen) /\ lastGen.scoresSaveOk
    /\ generalFile.servers = <<"A", "b">>
    /\ scoresFile.scores = <<[serverUrl |-> "A", serverScore |-> 5],
                             [serverUrl |-> "b", serverScore |-> 0]>>

NoDuplicateUrls(scores) ==
    \A i, j \in 1..Len(scores) :
        Lower(scores[i].serverUrl) = Lower(scores[j].serverUrl) => i = j

IsPrefix(old, new) ==
    /\ Len(old) <= Len(new)
    /\ \A j \in 1..Len(old) : new[j] = old[j]

(* C12: starting from a score list without case-insensitive duplicates,    *)
(* the persisted list never holds two records for one URL, never loses a   *)
(* record and never changes a score, whatever the fetched lists hold.      *)
C12_OneRecordPerUrl ==
    /\ NoDuplicateUrls(scoresFile.scores)
    /\ [][/\ NoDuplicateUrls(scoresFile'.scores)
          /\ IsPrefix(scoresFile.scores, scoresFile'.scores)]_vars

C12_Witness ==
    /\ RefreshDone(lastGen) /\ lastGen.scoresSaveOk
    /\ generalFile.mtime > 0
    /\ generalFile.servers = <<"a", "A">>
    /\ scoresFile.scores = <<[serverUrl |-> "b", serverScore |-> 3],
                             [serverUrl |-> "a", serverScore |-> 0]>>

LoadOps ==
    {"generalBitcoinServers", "generalSyncServers", "generalBitcoinFeeInfo"}

(* The call was a read that went through generalLoad(). *)
ReadCall(call) ==
    call.op \in LoadOps /\ ~(testnet /\ call.op = "generalBitcoinServers")

(* C13 as stated: a read of the general configuration made while the       *)
(* cache file is absent or stale (older than 2 seconds) fetches the remote *)
(* document.                                                               *)
C13_ReadRefreshesWhenAbsentOrStale ==
    (/\ ReadCall(lastGen)
     /\ \/ ~lastGen.prePresent
        \/ lastGen.preMtime + 2 < lastGen.at) => lastGen.fetched

(* C13 amended: a read made while the cache file is absent fetches the     *)
(* remote document and, the fetch and the save succeeding, persists it and *)
(* serves the snapshot loaded from the persisted copy; a read made while   *)
(* the file exists, stale or not, makes no fetch.                          *)
C13_ReadRefreshesWhenAbsent ==
    ReadCall(lastGen) =>
        /\ ~lastGen.prePresent =>
              /\ lastGen.fetched
              /\ (lastGen.fetchOk /\ lastGen.saveOk) =>
                    /\ generalFile.present
                    /\ generalFile.mtime = lastGen.at
                    /\ lastGen.op = "generalBitcoinServers" =>
                          \/ /\ \A i \in 1..Len(generalFile.servers) :
                                    generalFile.servers[i] = NotAString
                             /\ lastGen.out = FALLBACK_BITCOIN_SERVERS
                          \/ /\ lastGen.out # <<>>
                             /\ \A i \in 1..Len(lastGen.out) :
                                    \E k \in 1..Len(generalFile.servers) :
                                        generalFile.servers[k] = lastGen.out[i]
        /\ lastGen.prePresent => ~lastGen.fetched

C13_Witness ==
    /\ ReadCall(lastGen) /\ ~lastGen.prePresent
    /\ lastGen.fetchOk /\ lastGen.saveOk
    /\ lastGen.op = "generalBitcoinServers"
    /\ lastGen.out = <<"b">>

FreshFile == generalFile.present /\ generalFile.mtime + 2 >= now

(* C14: while the general cache file exists and is not stale               *)
(* (mtime + 2 >= now), no call of generalUpdate or of an accessor fetches, *)
(* and the general cache file and the score file stay as they are.         *)
C14_FreshMeansNoFetch ==
    [][FreshFile =>
          /\ generalFile' = generalFile
          /\ scoresFile' = scoresFile
          /\ (now' = now /\ lastGen'.op # "none") => ~lastGen'.fetched]_vars

C14_Witness ==
    /\ lastGen.op = "generalUpdate" /\ ~lastGen.fetched
    /\ lastGen.prePresent /\ lastGen.preMtime + 2 = lastGen.at
    /\ generalFile.servers # <<>>

(* C15: when generalUpdate finds the cache absent or stale and the fetch   *)
(* fails, it returns the failure and leaves the general cache file and the *)
(* score file as they were.                                                *)
C15_FailedFetchWritesNothing ==
    [][(/\ lastGen'.op = "generalUpdate" /\ now' = now
        /\ (~generalFile.present \/ generalFile.mtime + 2 < now)
        /\ ~lastGen'.fetchOk) =>
          /\ lastGen'.fetched /\ lastGen'.err = "fetch"
          /\ generalFile' = generalFile
          /\ scoresFile' = scoresFile]_vars

C15_Witness ==
    /\ lastGen.op = "generalUpdate" /\ lastGen.fetched /\ ~lastGen.fetchOk
    /\ lastGen.err = "fetch"
    /\ lastGen.prePresent /\ generalFile.present
    /\ generalFile.servers # <<>>

(* The call ended without a general cache file and without a document. *)
NoCacheNoDocument(call) ==
    call.op \in LoadOps /\ ~generalFile.present /\ ~call.fetchOk

(* C16 as stated: without a cache file and without a fetched document,     *)
(* generalBitcoinServers returns the fallback list, generalSyncServers the *)
(* hardcoded endpoint and generalBitcoinFeeInfo the default fee table.     *)
C16_FallbackDefaults ==
    NoCacheNoDocument(lastGen) =>
        /\ lastGen.op = "generalBitcoinServers" =>
              lastGen.out = FALLBACK_BITCOIN_SERVERS
        /\ lastGen.op = "generalSyncServers" =>
              lastGen.out = <<"https://git.sync.airbitz.co/repos">>
        /\ lastGen.op = "generalBitcoinFeeInfo" =>
              feeInfo = DefaultConfirmFees

(* C16 amended: as stated, except that a testnet build returns the testnet *)
(* server list and that a bucket with a non-zero persisted live estimate   *)
(* takes the estimate instead of the default, before the clamp.            *)
C16_FallbackDefaultsOrEstimates ==
    NoCacheNoDocument(lastGen) =>
        /\ lastGen.op = "generalBitcoinServers" =>
              lastGen.out = IF testnet THEN TESTNET_BITCOIN_SERVERS
                            ELSE FALLBACK_BITCOIN_SERVERS
        /\ lastGen.op = "generalSyncServers" =>
              lastGen.out = <<"https://git.sync.airbitz.co/repos">>
        /\ lastGen.op = "generalBitcoinFeeInfo" =>
              /\ ~feeFile.present => feeInfo = DefaultConfirmFees
              /\ feeInfo[1] = IF LiveEstimate(1) # 0 THEN LiveEstimate(1)
                              ELSE DefaultConfirmFees[1]
              /\ \A i \in 2..6 :
                    feeInfo[i] =
                        MinOf(IF LiveEstimate(i) # 0 THEN LiveEstimate(i)
                              ELSE DefaultConfirmFees[i], feeInfo[i - 1])

C16_Witness ==
    /\ NoCacheNoDocument(lastGen)
    /\ lastGen.op = "generalBitcoinServers"
    /\ lastGen.fetched /\ ~testnet
    /\ lastGen.out = FALLBACK_BITCOIN_SERVERS

(* C20: generalEstimateFeesNeedUpdate returns true exactly when the        *)
(* fee-estimate file is absent or its modification time plus 3 hours is    *)
(* strictly before the current time; generalUpdate fetches exactly when    *)
(* the general cache file is absent or its modification time plus 2        *)
(* seconds is strictly before the current time.                            *)
C20_StaleExactlyWhenOlder ==
    /\ lastGen.op = "generalEstimateFeesNeedUpdate" =>
          (lastGen.need <=>
              (~feeFile.present \/ feeFileTime + 10800 < lastGen.at))
    /\ lastGen.op = "generalUpdate" =>
          (lastGen.fetched <=>
              (~lastGen.prePresent \/ lastGen.preMtime + 2 < lastGen.at))

C20_Witness ==
    /\ lastGen.op = "generalEstimateFeesNeedUpdate"
    /\ feeFile.present /\ feeFileTime + 10800 = lastGen.at
    /\ ~lastGen.need

(* ------------------------- Login: properties --------------------------- *)

InCall(t) == pc[t] # "idle"

(* C18: calls of generalEstimateFeesUpdate exclude each other over their   *)
(* whole body (at most one thread is inside, and it holds mutex_), and     *)
(* whenever no call is in progress the response count of every bucket is   *)
(* exactly the number of calls for that bucket that have returned.         *)
C18_MutualExclusion ==
    /\ \A t1 \in Threads : \A t2 \in Threads :
          (InCall(t1) /\ InCall(t2)) => t1 = t2
    /\ \A t \in Threads : InCall(t) <=> mutex_ = t
    /\ (\A t \in Threads : ~InCall(t)) =>
          \A b \in Buckets : estimatedFeesNumResponses[b] = returned[b]
    /\ \A t \in Threads : \A b \in Buckets :
          InCall(t) =>
              estimatedFeesNumResponses[b] \in
                  {returned[b], IF b = frame[t].blocks THEN returned[b] + 1
                                ELSE returned[b]}

C18_Witness ==
    /\ \A t \in Threads : ~InCall(t)
    /\ returned[1] = 3
    /\ estimatedFeesNumResponses[1] = 3
    /\ returned[2] = 2

(* ----------------- general cache: concurrency properties --------------- *)

UpdateReturned(t) == upc[t] \in {"fresh", "failed", "unsaved", "refreshed"}

(* C19: once the concurrent generalUpdate calls have all returned and one  *)
(* of them has refreshed (its writes succeeding), the persisted document   *)
(* is the served one and the score list is that of a single refresh: the   *)
(* list as it was, followed by one score-0 record per new URL.             *)
C19_RaceEqualsSingleRefresh ==
    (/\ \A t \in Threads : UpdateReturned(t)
     /\ \E t \in Threads : upc[t] = "refreshed") =>
        /\ generalFile.present
        /\ generalFile.fees = served.fees
        /\ generalFile.servers = served.servers
        /\ generalFile.syncServers = served.syncServers
        /\ scoresFile.present
        /\ Reconciled(scoresAtStart.scores, served.servers, scoresFile.scores)
        /\ NoDuplicateUrls(scoresFile.scores)

C19_Witness ==
    /\ \A t \in Threads : upc[t] = "refreshed"
    /\ scoresAtStart.scores = <<[serverUrl |-> "A", serverScore |-> 5]>>
    /\ served.servers = <<"a", "b">>
    /\ scoresFile.scores = <<[serverUrl |-> "A", serverScore |-> 5],
                             [serverUrl |-> "b", serverScore |-> 0]>>

(* --------------------- Account: order of a dirty sync ------------------ *)

(* C21: a sync() whose pull reports dirty runs pull, ensure, wallets.load  *)
(* in that order; wallets.load is invoked only if the ensure succeeded,    *)
(* and a failed ensure ends the call with the wallets as they were.        *)
C21_DirtySyncOrder ==
    (last.op = "sync" /\ last.dirty) =>
        /\ Len(last.steps) \in {2, 3}
        /\ last.steps[1] = "syncRepo"
        /\ last.steps[2] = "syncEnsureRepo"
        /\ Len(last.steps) = 3 <=> last.err # "syncEnsureRepo"
        /\ Len(last.steps) = 3 =>
              /\ last.steps[3] = "wallets.load"
              /\ last.err \in {"none", "wallets.load"}
        /\ last.err = "syncEnsureRepo" => result.wallets = last.preWallets

C21_Witness ==
    /\ last.op = "sync" /\ last.dirty
    /\ last.err = "syncEnsureRepo"
    /\ last.steps = <<"syncRepo", "syncEnsureRepo">>
    /\ result.wallets # WalletsOf(workdir)

(* ------------- fee-estimate aggregator: frame and failure -------------- *)

(* The bucket the step's call was for. *)
SubmittedBucket == lastFee'.blocks

(* The mean the call leaves in its bucket, from the state before the call. *)
MeanAfter(b, sample) ==
    ((estimatedFees[b] * estimatedFeesNumResponses[b]) + sample)
        \div (estimatedFeesNumResponses[b] + 1)

(* C22: a call whose save fails returns the error with the accumulator     *)
(* not rolled back (the bucket's count and mean include the sample, the    *)
(* file is as it was), and the call after a failed one averages on top of  *)
(* the accumulator the failed call left.                                   *)
C22_FailedSaveKeepsSample ==
    [][/\ (lastFee'.complete /\ ~lastFee'.saveOk) =>
             /\ lastFee'.err = "save" /\ ~lastFee'.wrote
             /\ feeFile' = feeFile
             /\ estimatedFeesNumResponses'[SubmittedBucket] =
                    estimatedFeesNumResponses[SubmittedBucket] + 1
             /\ estimatedFees'[SubmittedBucket] =
                    MeanAfter(SubmittedBucket, lastFee'.sample)
       /\ lastFee.err = "save" =>
             /\ estimatedFeesNumResponses'[SubmittedBucket] =
                    estimatedFeesNumResponses[SubmittedBucket] + 1
             /\ estimatedFees'[SubmittedBucket] =
                    MeanAfter(SubmittedBucket, lastFee'.sample)]_vars

C22_Witness ==
    /\ lastFee.err = "save" /\ lastFee.sample = 0
    /\ TotalSamples = 6
    /\ ~feeFile.present

(* C23: a call for bucket b adds exactly 1 to the count of b and leaves    *)
(* the count and mean of every other slot as they were; once set, the      *)
(* initialized flag stays set and no call zeroes a bucket again.           *)
C23_OnlyOwnBucketChanges ==
    [][/\ SubmittedBucket \in Buckets
       /\ estimatedFeesInitialized'
       /\ estimatedFeesNumResponses'[SubmittedBucket] =
              estimatedFeesNumResponses[SubmittedBucket] + 1
       /\ \A o \in Slots \ {SubmittedBucket} :
              /\ estimatedFeesNumResponses'[o] = estimatedFeesNumResponses[o]
              /\ estimatedFees'[o] = estimatedFees[o]]_vars

C23_Witness ==
    /\ estimatedFeesInitialized
    /\ lastFee.blocks = 3
    /\ estimatedFeesNumResponses[1] = 2 /\ estimatedFees[1] > 0
    /\ estimatedFeesNumResponses[2] = 1 /\ estimatedFees[2] > 0
    /\ estimatedFeesNumResponses[3] = 2

(* ------------------- fee info: age of the estimate file ---------------- *)

(* C24: generalBitcoinFeeInfo takes every non-zero value of the persisted  *)
(* estimate file, whatever the age of the file: bucket 1 is the estimate,  *)
(* buckets 2..5 the estimate clamped by the bucket before.                 *)
C24_OldEstimateStillUsed ==
    (lastGen.op = "generalBitcoinFeeInfo") =>
        /\ LiveEstimate(1) # 0 => feeInfo[1] = LiveEstimate(1)
        /\ \A i \in 2..5 :
              LiveEstimate(i) # 0 =>
                  feeInfo[i] = MinOf(LiveEstimate(i), feeInfo[i - 1])

C24_Witness ==
    /\ lastGen.op = "generalBitcoinFeeInfo"
    /\ feeFile.present
    /\ feeFileTime + ESTIMATED_FEES_ACCEPTABLE_INFO_FILE_AGE_SECS < lastGen.at
    /\ generalFile.present /\ CachedFee(1) # 0
    /\ CachedFee(1) # LiveEstimate(1)
    /\ feeInfo[1] = LiveEstimate(1)

====
